---- MODULE Spec2Model ----
(***************************************************************************)
(* Model of the bootlick update engine: the strategy planners (Copy, SABS, *)
(* Scootch, XIP), the page-copy device, the persisted state record and the *)
(* step-driven orchestrator that advances it across resets.                *)
(***************************************************************************)
EXTENDS Integers, Sequences, FiniteSets, TLC

\* ------------------------------------------------------------------ bounds
MaxPages == 3
MaxScratch == 2
MaxResets == 2
MaxRetries == 2

\* --------------------------------------------------------------- constants
PRIMARY == 0
SECONDARY == 1
SCRATCH == 2
ALPHA == 1
BETA == 2
ERASED == 255
U16Mod == 65536

\* Option<Slot>::None, outside the u8 range of Slot.
NoSlot == 256
\* Option<Self>::None of Strategy::revert.
NoStrategy == [kind |-> "None"]

Slots == {PRIMARY, SECONDARY, SCRATCH}

U16(x) == x % U16Mod

Min(a, b) == IF a < b THEN a ELSE b

\* u16::div_ceil
DivCeil(a, b) == (a + b - 1) \div b

\* ------------------------------------------------------------ lib.rs types
MemoryLocation(slot, page) == [slot |-> slot, page |-> page]

CopyOperation(from, to) == [from |-> from, to |-> to]

\* ------------------------------------------------------- strategies: SABS
\* A strategy value carries the request and the geometry read from the
\* device at construction: kind, slot_secondary (the source/target slot),
\* slot_backup, num_pages, scratch_pages, slot_primary, slot_scratch.
SwapSABS(secondary, num_pages, scratch_pages) ==
    [kind |-> "SABS", slot_secondary |-> secondary, slot_backup |-> NoSlot,
     num_pages |-> num_pages, scratch_pages |-> scratch_pages,
     slot_primary |-> PRIMARY, slot_scratch |-> SCRATCH]

\* Phase::from_step of swap_sabs.rs: phase 0 = A2S, 1 = B2A, 2 = S2B.
SabsFromStep(step, scratch_pages) ==
    [phase |-> step % 3, start |-> U16((step \div 3) * scratch_pages)]

SabsLastStepFloor(s) == U16((s.num_pages \div s.scratch_pages) * 3)

SabsLastStep(s) == U16(DivCeil(s.num_pages, s.scratch_pages) * 3)

SabsEndpoints(s, ps) ==
    CASE ps.phase = 0 ->
           [from |-> MemoryLocation(s.slot_primary, ps.start),
            to |-> MemoryLocation(s.slot_scratch, 0)]
      [] ps.phase = 1 ->
           [from |-> MemoryLocation(s.slot_secondary, ps.start),
            to |-> MemoryLocation(s.slot_primary, ps.start)]
      [] ps.phase = 2 ->
           [from |-> MemoryLocation(s.slot_scratch, 0),
            to |-> MemoryLocation(s.slot_secondary, ps.start)]

\* A plan that copies one page per step whatever the scratch area holds.
SabsPlanOnePage(s, step) ==
    LET ps == SabsFromStep(step, s.scratch_pages)
        ft == SabsEndpoints(s, ps)
    IN  << CopyOperation(ft.from, ft.to) >>

\* A plan that always fills the whole scratch area, also in the last block.
SabsPlanFullBlock(s, step) ==
    LET ps == SabsFromStep(step, s.scratch_pages)
        ft == SabsEndpoints(s, ps)
    IN  [i \in 1..s.scratch_pages |->
            CopyOperation(
                MemoryLocation(ft.from.slot, U16(ft.from.page + (i - 1))),
                MemoryLocation(ft.to.slot, U16(ft.to.page + (i - 1))))]

SabsPlan(s, step) ==
    LET ps == SabsFromStep(step, s.scratch_pages)
        ft == SabsEndpoints(s, ps)
        pages_left == U16(s.num_pages - ps.start)
        pages_now == Min(pages_left, s.scratch_pages)
    IN  [i \in 1..pages_now |->
            CopyOperation(
                MemoryLocation(ft.from.slot, U16(ft.from.page + (i - 1))),
                MemoryLocation(ft.to.slot, U16(ft.to.page + (i - 1))))]

\* A revert that falls back to a scratch area of one page.
SabsRevertSingle(s) == [s EXCEPT !.scratch_pages = 1]

SabsRevert(s) == s

\* ---------------------------------------------------- strategies: Scootch
SwapScootch(secondary, num_pages) ==
    [kind |-> "Scootch", slot_secondary |-> secondary, slot_backup |-> NoSlot,
     num_pages |-> num_pages, scratch_pages |-> 1,
     slot_primary |-> PRIMARY, slot_scratch |-> SCRATCH]

\* Phase::from_step of swap_scootch.rs.
ScootchFromStepUp(step, num_pages) ==
    IF step < num_pages
    THEN [phase |-> "Scootch", page |-> step]
    ELSE LET r == U16(step - num_pages)
             page == r \div 2
         IN  IF r % 2 = 0
             THEN [phase |-> "ToPrimary", page |-> page]
             ELSE [phase |-> "ToSecondary", page |-> page]

ScootchFromStep(step, num_pages) ==
    IF step < num_pages
    THEN [phase |-> "Scootch", page |-> step]
    ELSE LET r == U16(step - num_pages)
             page == U16(num_pages - (r \div 2) - 1)
         IN  IF r % 2 = 0
             THEN [phase |-> "ToPrimary", page |-> page]
             ELSE [phase |-> "ToSecondary", page |-> page]

ScootchScratchLocation(s) == MemoryLocation(s.slot_scratch, 0)

\* A last step that counts two operations per page instead of three.
ScootchLastStepTwo(s) == U16(s.num_pages * 2)

ScootchLastStep(s) == U16(s.num_pages * 3)

\* A plan whose ToSecondary phase reads the page from where it was before
\* the scootch phase moved it.
ScootchPlanNoShift(s, step) ==
    LET ph == ScootchFromStep(step, s.num_pages)
        page == ph.page
    IN  CASE ph.phase = "Scootch" ->
               << CopyOperation(
                    MemoryLocation(s.slot_primary, page),
                    IF page = 0 THEN ScootchScratchLocation(s)
                    ELSE MemoryLocation(s.slot_primary, page - 1)) >>
          [] ph.phase = "ToPrimary" ->
               << CopyOperation(
                    MemoryLocation(s.slot_secondary, page),
                    MemoryLocation(s.slot_primary, page)) >>
          [] ph.phase = "ToSecondary" ->
               << CopyOperation(
                    IF page = 0 THEN ScootchScratchLocation(s)
                    ELSE MemoryLocation(s.slot_primary, page),
                    MemoryLocation(s.slot_secondary, page)) >>

\* plan returns a single CopyOperation; it is kept as a one-element sequence
\* so that all strategies share the executor.
ScootchPlan(s, step) ==
    LET ph == ScootchFromStep(step, s.num_pages)
        page == ph.page
    IN  CASE ph.phase = "Scootch" ->
               << CopyOperation(
                    MemoryLocation(s.slot_primary, page),
                    IF page = 0 THEN ScootchScratchLocation(s)
                    ELSE MemoryLocation(s.slot_primary, page - 1)) >>
          [] ph.phase = "ToPrimary" ->
               << CopyOperation(
                    MemoryLocation(s.slot_secondary, page),
                    MemoryLocation(s.slot_primary, page)) >>
          [] ph.phase = "ToSecondary" ->
               << CopyOperation(
                    IF page = 0 THEN ScootchScratchLocation(s)
                    ELSE MemoryLocation(s.slot_primary, page - 1),
                    MemoryLocation(s.slot_secondary, page)) >>

\* ------------------------------------------------------- strategies: Copy
Copy(secondary, backup, num_pages) ==
    [kind |-> "Copy", slot_secondary |-> secondary, slot_backup |-> backup,
     num_pages |-> num_pages, scratch_pages |-> 1,
     slot_primary |-> PRIMARY, slot_scratch |-> NoSlot]

CopyLastStep(s) == 1

\* A plan that stops one page short of the slot.
CopyPlanShort(s, step) ==
    [i \in 1..(s.num_pages - 1) |->
        CopyOperation(MemoryLocation(s.slot_secondary, i - 1),
                      MemoryLocation(s.slot_primary, i - 1))]

CopyPlan(s, step) ==
    [i \in 1..s.num_pages |->
        CopyOperation(MemoryLocation(s.slot_secondary, i - 1),
                      MemoryLocation(s.slot_primary, i - 1))]

\* A revert that clears the backup but keeps copying from the old source.
CopyRevertKeepsSource(s) ==
    IF s.slot_backup # NoSlot
    THEN [s EXCEPT !.slot_backup = NoSlot]
    ELSE NoStrategy

\* A revert that switches to the backup but still names it as backup.
CopyRevertKeepsBackup(s) ==
    IF s.slot_backup # NoSlot
    THEN [s EXCEPT !.slot_secondary = s.slot_backup]
    ELSE NoStrategy

CopyRevert(s) ==
    IF s.slot_backup # NoSlot
    THEN [s EXCEPT !.slot_secondary = s.slot_backup, !.slot_backup = NoSlot]
    ELSE NoStrategy

\* -------------------------------------------------------- strategies: XIP
Xip(target, backup) ==
    [kind |-> "Xip", slot_secondary |-> target, slot_backup |-> backup,
     num_pages |-> 1, scratch_pages |-> 1,
     slot_primary |-> PRIMARY, slot_scratch |-> NoSlot]

XipLastStep(s) == 0

\* A plan that copies the target over primary as Copy does.
XipPlanCopies(s, step) ==
    << CopyOperation(MemoryLocation(s.slot_secondary, 0),
                     MemoryLocation(s.slot_primary, 0)) >>

XipPlan(s, step) == << >>

\* A revert that drops the backup but keeps the failed target.
XipRevertKeepsTarget(s) ==
    IF s.slot_backup # NoSlot
    THEN [s EXCEPT !.slot_backup = NoSlot]
    ELSE NoStrategy

XipRevert(s) ==
    IF s.slot_backup # NoSlot
    THEN [s EXCEPT !.slot_secondary = s.slot_backup, !.slot_backup = NoSlot]
    ELSE NoStrategy

\* ------------------------------------------------- the Strategy interface
LastStep(s) ==
    CASE s.kind = "SABS" -> SabsLastStep(s)
      [] s.kind = "Scootch" -> ScootchLastStep(s)
      [] s.kind = "Copy" -> CopyLastStep(s)
      [] s.kind = "Xip" -> XipLastStep(s)

Plan(s, step) ==
    CASE s.kind = "SABS" -> SabsPlan(s, step)
      [] s.kind = "Scootch" -> ScootchPlan(s, step)
      [] s.kind = "Copy" -> CopyPlan(s, step)
      [] s.kind = "Xip" -> XipPlan(s, step)

\* ----------------------------------------------------------------- device
Pages(n) == 0..(n - 1)

IMAGE_A(n) == [p \in 0..(n - 1) |-> p + 1]

IMAGE_B(n) == [p \in 0..(n - 1) |-> n + p + 1]

\* MockDevice::new of mock/single_scratch.rs (primary, secondary, scratch)
\* and mock/tri_slot.rs (primary, alpha, beta).
MockDeviceNew(s) ==
    IF s.kind \in {"SABS", "Scootch"}
    THEN [slot \in Slots |->
            CASE slot = PRIMARY -> IMAGE_A(s.num_pages)
              [] slot = SECONDARY -> IMAGE_B(s.num_pages)
              [] slot = SCRATCH -> [p \in 0..(s.scratch_pages - 1) |-> ERASED]]
    ELSE [slot \in Slots |->
            CASE slot = PRIMARY -> IMAGE_A(s.num_pages)
              [] slot = ALPHA -> IMAGE_A(s.num_pages)
              [] slot = BETA -> IMAGE_B(s.num_pages)]

\* A copy that moves the page, leaving the source erased.
DeviceMove(m, op) ==
    [m EXCEPT ![op.to.slot][op.to.page] = m[op.from.slot][op.from.page],
              ![op.from.slot][op.from.page] =
                  IF op.from = op.to THEN @ ELSE ERASED]

\* Device::copy as the mock devices implement it: the value at `from` is
\* written to `to`, `from` stays intact.
DeviceCopy(m, op) ==
    [m EXCEPT ![op.to.slot][op.to.page] = m[op.from.slot][op.from.page]]

\* WearTracker::increase
WearIncrease(w, addr) ==
    IF addr \in DOMAIN w THEN [w EXCEPT ![addr] = @ + 1]
    ELSE [a \in (DOMAIN w) \cup {addr} |-> IF a = addr THEN 1 ELSE w[a]]

\* WearTracker::check_slot: no tracked page of the slot is worn more than
\* wear_level.
CheckSlot(w, slot, wear_level) ==
    \A addr \in DOMAIN w : addr.slot = slot => w[addr] <= wear_level

\* The test helpers' perform_copy: every step below last_step, every
\* operation of its plan, in order.
RECURSIVE ExecOps(_, _, _)
ExecOps(m, ops, i) ==
    IF i > Len(ops) THEN m ELSE ExecOps(DeviceCopy(m, ops[i]), ops, i + 1)

RECURSIVE PerformCopyFrom(_, _, _)
PerformCopyFrom(m, s, step) ==
    IF step >= LastStep(s) THEN m
    ELSE PerformCopyFrom(ExecOps(m, Plan(s, step), 1), s, step + 1)

PerformCopy(m, s) == PerformCopyFrom(m, s, 0)

\* ------------------------------------------------------ the state record
\* enum State of the example bootloader's state.rs.
Initial == [tag |-> "Initial"]

Trialing(target, old) == [tag |-> "Trialing", target |-> target, old |-> old]

Failed(current, failed) ==
    [tag |-> "Failed", current |-> current, failed |-> failed]

Confirmed(target) == [tag |-> "Confirmed", target |-> target]

Request(current, target) ==
    [tag |-> "Request", current |-> current, target |-> target]

Swapping(target, old, step) ==
    [tag |-> "Swapping", target |-> target, old |-> old, step |-> step]

Returning(failed, old, step) ==
    [tag |-> "Returning", failed |-> failed, old |-> old, step |-> step]

\* The state store holds no record until the first store.
NoRecord == [tag |-> "NoRecord"]

TerminalTags == {"Initial", "Confirmed", "Failed"}

\* ------------------------------------------------------- the state codec
\* serialize_into / deserialize_from of the State record: postcard's wire
\* format for the derived Serialize/Deserialize of the enum, i.e. the
\* variant index as a varint, a Slot as one byte, a u16 as a varint of at
\* most three bytes.
MAX_SERIALIZED_SIZE == 64

Ok(v) == [ok |-> TRUE, value |-> v]

Err(e) == [ok |-> FALSE, err |-> e]

VariantIndex(st) ==
    CASE st.tag = "Initial" -> 0
      [] st.tag = "Trialing" -> 1
      [] st.tag = "Failed" -> 2
      [] st.tag = "Confirmed" -> 3
      [] st.tag = "Request" -> 4
      [] st.tag = "Swapping" -> 5
      [] st.tag = "Returning" -> 6

\* A u16 written as two fixed little-endian bytes.
VarintU16Raw(v) == << v % 256, v \div 256 >>

RECURSIVE VarintU16(_)
VarintU16(v) ==
    IF v < 128 THEN << v >>
    ELSE << 128 + (v % 128) >> \o VarintU16(v \div 128)

\* postcard::to_slice(self, buffer): the bytes written.
ToSlice(st) ==
    << VariantIndex(st) >> \o
    CASE st.tag = "Initial" -> << >>
      [] st.tag = "Trialing" -> << st.target, st.old >>
      [] st.tag = "Failed" -> << st.current, st.failed >>
      [] st.tag = "Confirmed" -> << st.target >>
      [] st.tag = "Request" -> << st.current, st.target >>
      [] st.tag = "Swapping" -> << st.target, st.old >> \o VarintU16(st.step)
      [] st.tag = "Returning" -> << st.failed, st.old >> \o VarintU16(st.step)

\* A data buffer of five bytes.
SerializeIntoFive(st) ==
    IF Len(ToSlice(st)) > 5 THEN Err("BufferTooSmall")
    ELSE Ok(ToSlice(st))

SerializeInto(st) ==
    IF Len(ToSlice(st)) > MAX_SERIALIZED_SIZE THEN Err("BufferTooSmall")
    ELSE Ok(ToSlice(st))

\* try_take_varint for an integer of `bits` bits, from position pos on:
\* the value and the position after it.
RECURSIVE TakeVarint(_, _, _, _, _)
TakeVarint(b, pos, i, acc, bits) ==
    LET max_bytes == (bits + 6) \div 7
        max_of_last_byte == 2 ^ (bits - 7 * (max_bytes - 1)) - 1
    IN  IF i >= max_bytes THEN Err("DeserializeBadVarint")
        ELSE IF pos > Len(b) THEN Err("DeserializeUnexpectedEnd")
        ELSE IF b[pos] >= 128
             THEN TakeVarint(b, pos + 1, i + 1,
                             acc + (b[pos] % 128) * 128 ^ i, bits)
        ELSE IF i = max_bytes - 1 /\ b[pos] > max_of_last_byte
             THEN Err("DeserializeBadVarint")
        ELSE Ok([out |-> acc + b[pos] * 128 ^ i, next |-> pos + 1])

\* One byte (a Slot) at position pos.
TakeU8(b, pos) ==
    IF pos > Len(b) THEN Err("DeserializeUnexpectedEnd") ELSE Ok(b[pos])

\* postcard::from_bytes::<State>(buffer); bytes after the value are left.
FromBytes(b) ==
    LET tag == TakeVarint(b, 1, 0, 0, 32)
    IN  IF ~tag.ok THEN tag
        ELSE IF tag.value.out > 6 THEN Err("SerdeDeCustom")
        ELSE LET p == tag.value.next
                 f1 == TakeU8(b, p)
                 f2 == TakeU8(b, p + 1)
                 f3 == TakeVarint(b, p + 2, 0, 0, 16)
                 idx == tag.value.out
             IN  IF idx = 0 THEN Ok(Initial)
                 ELSE IF ~f1.ok THEN f1
                 ELSE IF idx = 3 THEN Ok(Confirmed(f1.value))
                 ELSE IF ~f2.ok THEN f2
                 ELSE IF idx = 1 THEN Ok(Trialing(f1.value, f2.value))
                 ELSE IF idx = 2 THEN Ok(Failed(f1.value, f2.value))
                 ELSE IF idx = 4 THEN Ok(Request(f1.value, f2.value))
                 ELSE IF ~f3.ok THEN f3
                 ELSE IF idx = 5
                      THEN Ok(Swapping(f1.value, f2.value, f3.value.out))
                 ELSE Ok(Returning(f1.value, f2.value, f3.value.out))

\* deserialize_from: from_bytes with postcard's errors mapped.
DeserializeFrom(b) ==
    LET r == FromBytes(b)
    IN  IF r.ok THEN r
        ELSE IF r.err = "DeserializeUnexpectedEnd" THEN Err("BufferTooSmall")
        ELSE IF r.err = "DeserializeBadVarint" THEN Err("InvalidFormat")
        ELSE Err("Custom")

\* The devices the engine is built for: a strategy kind with the geometry
\* the device reports (page_count, scratch_page_count).
Devices ==
    {[kind |-> "SABS", num_pages |-> n, scratch_pages |-> w] :
        n \in 1..MaxPages, w \in 1..MaxScratch}
    \cup {[kind |-> k, num_pages |-> n, scratch_pages |-> 1] :
        k \in {"Scootch", "Copy"}, n \in 1..MaxPages}
    \cup {[kind |-> "Xip", num_pages |-> 1, scratch_pages |-> 1]}

\* X::new(&device, request): the forward strategy for a request to activate
\* `target` while `old` is the current image.
StrategyNew(dev, target, old) ==
    CASE dev.kind = "SABS" -> SwapSABS(target, dev.num_pages, dev.scratch_pages)
      [] dev.kind = "Scootch" -> SwapScootch(target, dev.num_pages)
      [] dev.kind = "Copy" -> Copy(target, old, dev.num_pages)
      [] dev.kind = "Xip" -> Xip(target, old)

\* The strategy executed while Returning: revert() where the strategy has
\* one, the same plan again for Scootch.
ReverseStrategy(s) ==
    CASE s.kind = "SABS" -> SabsRevert(s)
      [] s.kind = "Scootch" -> s
      [] s.kind = "Copy" -> CopyRevert(s)
      [] s.kind = "Xip" -> XipRevert(s)

\* The request the application files: which slot is current, which target.
RequestFor(dev) ==
    IF dev.kind = "Copy" THEN Request(ALPHA, BETA)
    ELSE Request(PRIMARY, SECONDARY)

VARIABLES
    device,     \* kind and geometry of the device
    mem,        \* slot -> page -> contents
    wear,       \* WearTracker: location -> number of copies into it
    nvm,        \* the record held by the state store, or NoRecord
    cur,        \* the orchestrator's in-memory state (PersistentState.state)
    pc,         \* "fetch", "run", "boot", "app"; "plan", "again", "done";
                \* "forward", "reverse", "reverted", "irreversible";
                \* "store", "stored", "off", "panic"; "new", "ready",
                \* "planned"; "halt"
    opi,        \* operations of the current plan executed in this pass
    booted,     \* slot handed to boot, NoSlot while the bootloader runs
    hist,       \* the distinct persisted states since the last Request
    execd,      \* operations executed since the last store or reset
    mem0,       \* slot contents when the Request was filed
    midReset,   \* a reset has cut a plan partway since the Request
    resets,     \* number of power losses so far (bounded specification)
    step,       \* plan executor: the step being executed
    snap,       \* plan executor: contents after the first pass of a step
    strategy,   \* revert test: the strategy in hand, NoStrategy elsewhere
    strategy0,  \* revert test: the strategy built from the request
    buf,        \* state store: the value bytes of the stored record
    attempts,   \* failed passes of the step in hand since the last store
    trial       \* the trial since Trialing was stored: "none", "stored",
                \* "booted", "cut" (reset before the boot)

vars == << device, mem, wear, nvm, cur, pc, opi, booted, hist, execd, mem0,
           midReset, resets, step, snap, strategy, strategy0,
           buf, attempts, trial >>

planVars == << wear, step, snap, strategy, strategy0, buf >>

\* A fetch that starts from the default whatever the store holds.
FetchDefault(n) == Initial

\* fetch: the stored record, Initial when there is none.
Fetch(n) == IF n = NoRecord THEN Initial ELSE n

Persisted == Fetch(nvm)

\* The strategy the orchestrator executes in state st.
StrategyOf(st) ==
    CASE st.tag = "Swapping" -> StrategyNew(device, st.target, st.old)
      [] st.tag = "Returning" ->
            ReverseStrategy(StrategyNew(device, st.failed, st.old))

CurPlan == Plan(StrategyOf(cur), cur.step)

\* Off by one: the last step is left out.
NextStateSkipsLast(st) ==
    CASE st.tag = "Swapping" ->
            IF st.step + 2 < LastStep(StrategyOf(st))
            THEN Swapping(st.target, st.old, st.step + 1)
            ELSE Trialing(st.target, st.old)
      [] st.tag = "Returning" ->
            IF st.step + 1 < LastStep(StrategyOf(st))
            THEN Returning(st.failed, st.old, st.step + 1)
            ELSE Failed(st.old, st.failed)

\* The state written after step st.step has been executed.
\* A table whose forward plan ends in Confirmed, without a trial.
NextStateConfirms(st) ==
    CASE st.tag = "Swapping" ->
            IF st.step + 1 < LastStep(StrategyOf(st))
            THEN Swapping(st.target, st.old, st.step + 1)
            ELSE Confirmed(st.target)
      [] st.tag = "Returning" ->
            IF st.step + 1 < LastStep(StrategyOf(st))
            THEN Returning(st.failed, st.old, st.step + 1)
            ELSE Failed(st.old, st.failed)

\* A table that records two steps of progress for one executed.
NextStateByTwo(st) ==
    CASE st.tag = "Swapping" ->
            IF st.step + 2 < LastStep(StrategyOf(st))
            THEN Swapping(st.target, st.old, st.step + 2)
            ELSE Trialing(st.target, st.old)
      [] st.tag = "Returning" ->
            IF st.step + 2 < LastStep(StrategyOf(st))
            THEN Returning(st.failed, st.old, st.step + 2)
            ELSE Failed(st.old, st.failed)

NextState(st) ==
    CASE st.tag = "Swapping" ->
            IF st.step + 1 < LastStep(StrategyOf(st))
            THEN Swapping(st.target, st.old, st.step + 1)
            ELSE Trialing(st.target, st.old)
      [] st.tag = "Returning" ->
            IF st.step + 1 < LastStep(StrategyOf(st))
            THEN Returning(st.failed, st.old, st.step + 1)
            ELSE Failed(st.old, st.failed)

Init ==
    /\ device \in Devices
    /\ mem = MockDeviceNew(StrategyNew(device, SECONDARY, PRIMARY))
    /\ wear = << >>
    /\ nvm = NoRecord
    /\ cur = Initial
    /\ pc = "fetch"
    /\ opi = 0
    /\ booted = NoSlot
    /\ hist = << >>
    /\ execd = << >>
    /\ mem0 = mem
    /\ midReset = FALSE
    /\ resets = 0
    /\ attempts = 0
    /\ trial = "none"
    /\ step = 0
    /\ snap = mem
    /\ buf = << >>
    /\ strategy = NoStrategy
    /\ strategy0 = NoStrategy

\* store(state): replaces the stored record and the in-memory copy.
Store(new) ==
    /\ nvm' = new
    /\ cur' = new
    /\ hist' = Append(hist, new)
    /\ execd' = << >>
    /\ opi' = 0

\* PersistentState::new / main: fetch the state after reset.
FetchState ==
    /\ pc = "fetch"
    /\ cur' = Fetch(nvm)
    /\ pc' = "run"
    /\ UNCHANGED << device, mem, nvm, opi, booted, hist, execd, mem0,
                    midReset, resets, attempts, trial, planVars >>

\* Boots the wrong slot.
BootInitialSecondary ==
    /\ pc = "run"
    /\ cur.tag = "Initial"
    /\ booted' = SECONDARY
    /\ pc' = "app"
    /\ UNCHANGED << device, mem, nvm, cur, opi, hist, execd, mem0,
                    midReset, resets, attempts, trial, planVars >>

\* Boots primary as soon as a request is found, before any swap.
BootInitialOnRequest ==
    /\ pc = "run"
    /\ cur.tag \in {"Initial", "Request"}
    /\ booted' = PRIMARY
    /\ pc' = "app"
    /\ UNCHANGED << device, mem, nvm, cur, opi, hist, execd, mem0,
                    midReset, resets, attempts, trial, planVars >>

\* main: no request active, boot to primary.
BootInitial ==
    /\ pc = "run"
    /\ cur.tag = "Initial"
    /\ booted' = PRIMARY
    /\ pc' = "app"
    /\ UNCHANGED << device, mem, nvm, cur, opi, hist, execd, mem0,
                    midReset, resets, attempts, trial, planVars >>

BootConfirmed ==
    /\ pc = "run"
    /\ cur.tag = "Confirmed"
    /\ booted' = cur.target
    /\ pc' = "app"
    /\ UNCHANGED << device, mem, nvm, cur, opi, hist, execd, mem0,
                    midReset, resets, attempts, trial, planVars >>

\* Boots the image that failed its trial.
BootFailedImage ==
    /\ pc = "run"
    /\ cur.tag = "Failed"
    /\ booted' = cur.failed
    /\ pc' = "app"
    /\ UNCHANGED << device, mem, nvm, cur, opi, hist, execd, mem0,
                    midReset, resets, attempts, trial, planVars >>

BootFailed ==
    /\ pc = "run"
    /\ cur.tag = "Failed"
    /\ booted' = cur.current
    /\ pc' = "app"
    /\ UNCHANGED << device, mem, nvm, cur, opi, hist, execd, mem0,
                    midReset, resets, attempts, trial, planVars >>

\* A swap that is recorded as already one step along.
BeginSwapAtOne ==
    /\ pc = "run"
    /\ cur.tag = "Request"
    /\ Store(Swapping(cur.target, cur.current, 1))
    /\ UNCHANGED << device, mem, pc, booted, mem0, midReset, resets,
                    attempts, trial, planVars >>

\* Request -> Swapping{step: 0}; nothing is copied.
BeginSwap ==
    /\ pc = "run"
    /\ cur.tag = "Request"
    /\ Store(Swapping(cur.target, cur.current, 0))
    /\ UNCHANGED << device, mem, pc, booted, mem0, midReset, resets,
                    attempts, trial, planVars >>

\* One copy operation of the current step's plan.
ExecOp ==
    /\ pc = "run"
    /\ cur.tag \in {"Swapping", "Returning"}
    /\ opi < Len(CurPlan)
    /\ mem' = DeviceCopy(mem, CurPlan[opi + 1])
    /\ execd' = Append(execd, CurPlan[opi + 1])
    /\ opi' = opi + 1
    /\ UNCHANGED << device, nvm, cur, pc, booted, hist, mem0, midReset,
                    resets, attempts, trial, planVars >>

\* Records the progress before the plan is exhausted.
StoreStepEarly ==
    /\ pc = "run"
    /\ cur.tag \in {"Swapping", "Returning"}
    /\ opi <= Len(CurPlan)
    /\ Store(NextState(cur))
    /\ pc' = IF NextState(cur).tag = "Trialing" THEN "boot" ELSE "run"
    /\ attempts' = 0
    /\ trial' = IF NextState(cur).tag = "Trialing" THEN "stored" ELSE "none"
    /\ UNCHANGED << device, mem, booted, mem0, midReset, resets, planVars >>

\* The step's plan is exhausted: record the progress.
StoreStep ==
    /\ pc = "run"
    /\ cur.tag \in {"Swapping", "Returning"}
    /\ opi = Len(CurPlan)
    /\ Store(NextState(cur))
    /\ pc' = IF NextState(cur).tag = "Trialing" THEN "boot" ELSE "run"
    /\ attempts' = 0
    /\ trial' = IF NextState(cur).tag = "Trialing" THEN "stored" ELSE "none"
    /\ UNCHANGED << device, mem, booted, mem0, midReset, resets, planVars >>

\* Trialing has just been written: boot the target.
BootTrial ==
    /\ pc = "boot"
    /\ booted' = cur.target
    /\ pc' = "app"
    /\ UNCHANGED << device, mem, nvm, cur, opi, hist, execd, mem0,
                    midReset, resets, attempts, planVars >>
    /\ trial' = "booted"

\* Boots the target again instead of reverting.
TrialBootedAgain ==
    /\ pc = "run"
    /\ cur.tag = "Trialing"
    /\ booted' = cur.target
    /\ pc' = "app"
    /\ UNCHANGED << device, mem, nvm, cur, opi, hist, execd, mem0,
                    midReset, resets, attempts, planVars >>
    /\ trial' = "booted"

\* Declares the trial failed in the run that stored Trialing.
TrialFailedAtOnce ==
    /\ pc \in {"run", "boot"}
    /\ cur.tag = "Trialing"
    /\ Store(Returning(cur.target, cur.old, 0))
    /\ pc' = "run"
    /\ UNCHANGED << device, mem, booted, mem0, midReset, resets,
                    attempts, trial, planVars >>

\* Trialing found after a reset: the trial failed.
TrialFailed ==
    /\ pc = "run"
    /\ cur.tag = "Trialing"
    /\ Store(Returning(cur.target, cur.old, 0))
    /\ UNCHANGED << device, mem, pc, booted, mem0, midReset, resets,
                    attempts, trial, planVars >>

\* What a reset does to the volatile state.
Restart ==
    /\ pc' = "fetch"
    /\ cur' = Initial
    /\ opi' = 0
    /\ booted' = NoSlot
    /\ execd' = << >>
    /\ midReset' = (midReset \/ (/\ pc = "run"
                                /\ cur.tag \in {"Swapping", "Returning"}
                                /\ 0 < opi
                                /\ opi < Len(CurPlan)))
    /\ attempts' = 0
    /\ trial' = IF trial = "stored" THEN "cut" ELSE trial
    /\ UNCHANGED << device, mem, nvm, hist, mem0, planVars >>

\* Power loss or watchdog reset, at any point.
Reset ==
    /\ pc \in {"run", "boot", "app"}
    /\ Restart
    /\ UNCHANGED resets

\* The booted application confirms the trial.
AppConfirm ==
    /\ pc = "app"
    /\ nvm.tag = "Trialing"
    /\ nvm' = Confirmed(nvm.target)
    /\ hist' = Append(hist, Confirmed(nvm.target))
    /\ UNCHANGED << device, mem, cur, pc, opi, booted, execd, mem0,
                    midReset, resets, attempts, trial, planVars >>

\* The booted application files an update request.
AppRequest ==
    /\ pc = "app"
    /\ Persisted.tag \in TerminalTags
    /\ nvm' = RequestFor(device)
    /\ hist' = << RequestFor(device) >>
    /\ mem0' = mem
    /\ midReset' = FALSE
    /\ UNCHANGED << device, mem, cur, pc, opi, booted, execd, resets,
                    attempts, trial, planVars >>

Orchestrator ==
    \/ FetchState
    \/ BootInitial
    \/ BootConfirmed
    \/ BootFailed
    \/ BeginSwap
    \/ ExecOp
    \/ StoreStep
    \/ BootTrial
    \/ TrialFailed

Next ==
    \/ Orchestrator
    \/ Reset
    \/ AppConfirm
    \/ AppRequest

Spec == Init /\ [][Next]_vars

\* ------------------------------------------- bounded power loss, fairness
\* A power loss, counted.
PowerLoss ==
    /\ pc \in {"run", "boot", "app"}
    /\ resets < MaxResets
    /\ Restart
    /\ resets' = resets + 1

\* The running application hands control back to the bootloader: after
\* filing a request, or when an unconfirmed trial ends in a reset.
Reboot ==
    /\ pc = "app"
    /\ nvm.tag \in {"Request", "Trialing"}
    /\ Restart
    /\ UNCHANGED resets

LiveNext ==
    \/ Orchestrator
    \/ PowerLoss
    \/ Reboot
    \/ AppConfirm
    \/ AppRequest

\* The bootloader runs without preemption until it boots or is reset; a
\* trial ends in a confirmation or a reset.
LiveSpec ==
    /\ Init
    /\ [][LiveNext]_vars
    /\ WF_vars(Orchestrator)
    /\ WF_vars(Reboot \/ AppConfirm)

\* ------------------------------------------------ transient copy failure
\* Device::copy returns Err: the destination page holds what it held or,
\* when the erase was done and the write was not, is erased.
DeviceCopyFailed(m, op) ==
    {m, [m EXCEPT ![op.to.slot][op.to.page] = ERASED]}

\* The copy in hand fails and the step is retried from its first operation.
CopyFails ==
    /\ pc = "run"
    /\ cur.tag \in {"Swapping", "Returning"}
    /\ opi < Len(CurPlan)
    /\ attempts < MaxRetries
    /\ mem' \in DeviceCopyFailed(mem, CurPlan[opi + 1])
    /\ attempts' = attempts + 1
    /\ UNCHANGED trial
    /\ opi' = 0
    /\ execd' = << >>
    /\ UNCHANGED << device, nvm, cur, pc, booted, hist, mem0, midReset,
                    resets, planVars >>

\* The copy fails once more after the last retry: the orchestrator stops
\* and waits for the watchdog.
CopyGivesUp ==
    /\ pc = "run"
    /\ cur.tag \in {"Swapping", "Returning"}
    /\ opi < Len(CurPlan)
    /\ attempts = MaxRetries
    /\ mem' \in DeviceCopyFailed(mem, CurPlan[opi + 1])
    /\ pc' = "halt"
    /\ opi' = 0
    /\ execd' = << >>
    /\ UNCHANGED << device, nvm, cur, booted, hist, mem0, midReset,
                    resets, attempts, trial, planVars >>

\* The watchdog fires: recovery starts from the stored record.
WatchdogReset ==
    /\ pc = "halt"
    /\ Restart
    /\ UNCHANGED resets

FaultNext ==
    \/ Orchestrator
    \/ CopyFails
    \/ CopyGivesUp
    \/ WatchdogReset
    \/ Reset
    \/ AppConfirm
    \/ AppRequest

FaultSpec == Init /\ [][FaultNext]_vars

\* ---------------------------------------------------- the plan executor
\* The strategy tests' perform_copy, one operation at a time, on the mock
\* device; a completed step may be executed a second time before the next.
PlanStrategy ==
    StrategyNew(device, RequestFor(device).target, RequestFor(device).current)

PlanInit ==
    /\ device \in Devices
    /\ mem = MockDeviceNew(StrategyNew(device, SECONDARY, PRIMARY))
    /\ wear = << >>
    /\ nvm = NoRecord
    /\ cur = Initial
    /\ pc = "plan"
    /\ opi = 0
    /\ booted = NoSlot
    /\ hist = << >>
    /\ execd = << >>
    /\ mem0 = mem
    /\ midReset = FALSE
    /\ resets = 0
    /\ attempts = 0
    /\ trial = "none"
    /\ step = 0
    /\ snap = mem
    /\ buf = << >>
    /\ strategy = NoStrategy
    /\ strategy0 = NoStrategy

orchVars == << device, nvm, cur, booted, hist, mem0, midReset, resets,
              attempts, trial, strategy, strategy0, buf >>

PlanExecOp ==
    /\ pc \in {"plan", "again"}
    /\ step < LastStep(PlanStrategy)
    /\ opi < Len(Plan(PlanStrategy, step))
    /\ mem' = DeviceCopy(mem, Plan(PlanStrategy, step)[opi + 1])
    /\ wear' = WearIncrease(wear, Plan(PlanStrategy, step)[opi + 1].to)
    /\ execd' = Append(execd, Plan(PlanStrategy, step)[opi + 1])
    /\ opi' = opi + 1
    /\ UNCHANGED << orchVars, pc, step, snap >>

PlanRepeatStep ==
    /\ pc = "plan"
    /\ step < LastStep(PlanStrategy)
    /\ opi = Len(Plan(PlanStrategy, step))
    /\ pc' = "again"
    /\ snap' = mem
    /\ opi' = 0
    /\ UNCHANGED << orchVars, mem, wear, execd, step >>

PlanNextStep ==
    /\ pc \in {"plan", "again"}
    /\ step < LastStep(PlanStrategy)
    /\ opi = Len(Plan(PlanStrategy, step))
    /\ step' = step + 1
    /\ opi' = 0
    /\ pc' = "plan"
    /\ UNCHANGED << orchVars, mem, wear, execd, snap >>

PlanFinish ==
    /\ pc = "plan"
    /\ step = LastStep(PlanStrategy)
    /\ pc' = "done"
    /\ UNCHANGED << orchVars, mem, wear, execd, opi, step, snap >>

PlanNext ==
    \/ PlanExecOp
    \/ PlanRepeatStep
    \/ PlanNextStep
    \/ PlanFinish

PlanSpec == PlanInit /\ [][PlanNext]_vars

\* ------------------------------------------------------ the revert tests
\* The strategy tests, generalised: build a strategy from a request on
\* slots with arbitrary contents, run perform_copy, take revert() and,
\* where it is Some, run perform_copy again.
PageValues == {IMAGE_A(1)[0], IMAGE_B(1)[0]}

Revert(s) ==
    CASE s.kind = "SABS" -> SabsRevert(s)
      [] s.kind = "Copy" -> CopyRevert(s)
      [] s.kind = "Xip" -> XipRevert(s)

\* The requests a device takes, as the strategy new() builds from them.
RevertRequests(dev) ==
    CASE dev.kind \in {"SABS", "Scootch"} ->
            {StrategyNew(dev, SECONDARY, PRIMARY)}
      [] dev.kind = "Copy" ->
            {Copy(BETA, b, dev.num_pages) : b \in {ALPHA, NoSlot}}
      [] dev.kind = "Xip" -> {Xip(BETA, b) : b \in {ALPHA, NoSlot}}

\* Every filling of the slots of the mock device a strategy runs on.
SlotContents(s) ==
    {[slot \in Slots |-> CASE slot = PRIMARY -> a
                           [] slot = SECONDARY -> b
                           [] slot = SCRATCH -> c] :
        a \in [Pages(s.num_pages) -> PageValues],
        b \in [Pages(s.num_pages) -> PageValues],
        c \in [Pages(CASE s.kind = "SABS" -> s.scratch_pages
                        [] s.kind = "Scootch" -> 1
                        [] OTHER -> s.num_pages) -> PageValues]}

RevertInit ==
    /\ device \in Devices
    /\ strategy0 \in RevertRequests(device)
    /\ strategy = strategy0
    /\ mem \in SlotContents(strategy0)
    /\ wear = << >>
    /\ nvm = NoRecord
    /\ cur = Initial
    /\ pc = "forward"
    /\ opi = 0
    /\ booted = NoSlot
    /\ hist = << >>
    /\ execd = << >>
    /\ mem0 = mem
    /\ midReset = FALSE
    /\ resets = 0
    /\ attempts = 0
    /\ trial = "none"
    /\ step = 0
    /\ snap = mem
    /\ buf = << >>

revertVars == << device, nvm, cur, booted, hist, mem0, midReset, resets,
                attempts, trial, strategy0, buf >>

RevertExecOp ==
    /\ pc \in {"forward", "reverse"}
    /\ step < LastStep(strategy)
    /\ opi < Len(Plan(strategy, step))
    /\ mem' = DeviceCopy(mem, Plan(strategy, step)[opi + 1])
    /\ wear' = WearIncrease(wear, Plan(strategy, step)[opi + 1].to)
    /\ execd' = Append(execd, Plan(strategy, step)[opi + 1])
    /\ opi' = opi + 1
    /\ UNCHANGED << revertVars, pc, step, snap, strategy >>

RevertNextStep ==
    /\ pc \in {"forward", "reverse"}
    /\ step < LastStep(strategy)
    /\ opi = Len(Plan(strategy, step))
    /\ step' = step + 1
    /\ opi' = 0
    /\ UNCHANGED << revertVars, pc, mem, wear, execd, snap, strategy >>

\* strategy.revert() is Some: the reverted strategy is executed next.
RevertSome ==
    /\ pc = "forward"
    /\ step = LastStep(strategy)
    /\ strategy.kind # "Scootch"
    /\ Revert(strategy) # NoStrategy
    /\ strategy' = Revert(strategy)
    /\ pc' = "reverse"
    /\ snap' = mem
    /\ step' = 0
    /\ opi' = 0
    /\ execd' = << >>
    /\ UNCHANGED << revertVars, mem, wear >>

\* strategy.revert() is None: the update is not reversible.
RevertNone ==
    /\ pc = "forward"
    /\ step = LastStep(strategy)
    /\ strategy.kind # "Scootch"
    /\ Revert(strategy) = NoStrategy
    /\ pc' = "irreversible"
    /\ UNCHANGED << revertVars, mem, wear, execd, opi, step, snap, strategy >>

\* SwapScootch has no revert: the same plan is executed a second time.
ScootchAgain ==
    /\ pc = "forward"
    /\ step = LastStep(strategy)
    /\ strategy.kind = "Scootch"
    /\ pc' = "reverse"
    /\ snap' = mem
    /\ step' = 0
    /\ opi' = 0
    /\ execd' = << >>
    /\ UNCHANGED << revertVars, mem, wear, strategy >>

RevertFinish ==
    /\ pc = "reverse"
    /\ step = LastStep(strategy)
    /\ pc' = "reverted"
    /\ UNCHANGED << revertVars, mem, wear, execd, opi, step, snap, strategy >>

RevertNext ==
    \/ RevertExecOp
    \/ RevertNextStep
    \/ RevertSome
    \/ RevertNone
    \/ ScootchAgain
    \/ RevertFinish

RevertSpec == RevertInit /\ [][RevertNext]_vars

\* -------------------------------------------------------- the state store
\* PersistentState over a state region: store serializes a State into the
\* record, the record may be damaged while the device is off, and new()
\* fetches it back at the next start.
SlotSamples == {0, 1, 2, 127, 128, 255}

StepSamples == {0, 1, 127, 128, 255, 256, 16383, 16384, 65535}

ByteSamples == {0, 1, 7, 127, 128, 255}

States ==
    {Initial}
    \cup {Confirmed(a) : a \in SlotSamples}
    \cup {Trialing(a, b) : a \in SlotSamples, b \in SlotSamples}
    \cup {Failed(a, b) : a \in SlotSamples, b \in SlotSamples}
    \cup {Request(a, b) : a \in SlotSamples, b \in SlotSamples}
    \cup {Swapping(a, b, k) : a \in {0, 255}, b \in {1, 128}, k \in StepSamples}
    \cup {Returning(a, b, k) : a \in {1, 128}, b \in {0, 255}, k \in StepSamples}

\* The records a stored record can turn into: cut short, or one byte
\* replaced.
Damaged(b) ==
    ({SubSeq(b, 1, k) : k \in 0..(Len(b) - 1)}
     \cup {[b EXCEPT ![i] = v] : i \in 1..Len(b), v \in ByteSamples})
    \ {b}

CodecInit ==
    /\ device \in {d \in Devices : d.kind = "Xip"}
    /\ mem = MockDeviceNew(StrategyNew(device, SECONDARY, PRIMARY))
    /\ wear = << >>
    /\ nvm = NoRecord
    /\ cur = Initial
    /\ pc = "store"
    /\ opi = 0
    /\ booted = NoSlot
    /\ hist = << >>
    /\ execd = << >>
    /\ mem0 = mem
    /\ midReset = FALSE
    /\ resets = 0
    /\ attempts = 0
    /\ trial = "none"
    /\ step = 0
    /\ snap = mem
    /\ strategy = NoStrategy
    /\ strategy0 = NoStrategy
    /\ buf = << >>

codecVars == << device, mem, wear, opi, booted, execd, mem0, midReset,
                resets, attempts, trial, step, snap, strategy, strategy0 >>

\* PersistentState::store(state): store_item serializes the state into the
\* data buffer and writes it as the record of key (); unwrap panics when
\* that fails.
CodecStore ==
    /\ pc = "store"
    /\ \E state \in States :
          IF SerializeInto(state).ok
          THEN /\ buf' = SerializeInto(state).value
               /\ nvm' = state
               /\ cur' = state
               /\ hist' = Append(hist, state)
               /\ pc' = "stored"
          ELSE /\ pc' = "panic"
               /\ UNCHANGED << buf, nvm, cur, hist >>
    /\ UNCHANGED codecVars

\* The device is switched off without ever storing a state.
CodecOff ==
    /\ pc = "store"
    /\ pc' = "off"
    /\ UNCHANGED << codecVars, buf, nvm, cur, hist >>

\* The device is switched off after the store.
CodecStoredOff ==
    /\ pc = "stored"
    /\ pc' = "off"
    /\ cur' = Initial
    /\ UNCHANGED << codecVars, buf, nvm, hist >>

\* The stored record no longer holds the bytes that were written.
CodecDamage ==
    /\ pc = "off"
    /\ nvm # NoRecord
    /\ buf = SerializeInto(nvm).value
    /\ \E b \in Damaged(buf) : buf' = b
    /\ UNCHANGED << codecVars, nvm, cur, hist, pc >>

\* PersistentState::new: fetch_item hands the record's value bytes to
\* deserialize_from and returns its error as Err; unwrap panics on Err;
\* Ok(None), when there is no record, becomes State::Initial.
CodecFetch ==
    /\ pc = "off"
    /\ IF nvm = NoRecord
       THEN cur' = Initial /\ pc' = "run"
       ELSE IF DeserializeFrom(buf).ok
            THEN cur' = DeserializeFrom(buf).value /\ pc' = "run"
            ELSE cur' = cur /\ pc' = "panic"
    /\ UNCHANGED << codecVars, buf, nvm, hist >>

CodecNext ==
    \/ CodecStore
    \/ CodecOff
    \/ CodecStoredOff
    \/ CodecDamage
    \/ CodecFetch

CodecSpec == CodecInit /\ [][CodecNext]_vars

\* ------------------------------------------------------------ the planner
\* A strategy is built for a device geometry and a request, last_step() is
\* taken and plan(step) is asked for a step below it.  The 16-bit products
\* of last_step panic when the build checks overflow and wrap otherwise.
PageCountSamples == {1, 2, 3, 21845, 21846, 65535}

PlanStepSamples == (0..8) \cup {32767, 65531, 65532, 65534}

\* last_step as the strategy's comment defines it, without the u16.
LastStepUnbounded(s) ==
    CASE s.kind = "SABS" -> DivCeil(s.num_pages, s.scratch_pages) * 3
      [] s.kind = "Scootch" -> s.num_pages * 3
      [] s.kind = "Copy" -> 1
      [] s.kind = "Xip" -> 0

\* The strategies of every request on every sampled geometry; the request
\* may name any slot of the device.
PlannerStrategies ==
    {[SwapSABS(sec, n, w) EXCEPT !.slot_primary = PRIMARY] :
        sec \in Slots, n \in PageCountSamples, w \in 1..MaxScratch}
    \cup {SwapScootch(sec, n) : sec \in Slots, n \in PageCountSamples}
    \cup {Copy(sec, b, n) :
            sec \in Slots, b \in Slots \cup {NoSlot}, n \in 1..MaxPages}
    \cup {Xip(t, b) : t \in Slots, b \in Slots \cup {NoSlot}}

PlannerInit ==
    /\ strategy \in PlannerStrategies
    /\ strategy0 = strategy
    /\ device = [kind |-> strategy.kind, num_pages |-> strategy.num_pages,
                 scratch_pages |-> strategy.scratch_pages]
    /\ mem = << >>
    /\ wear = << >>
    /\ nvm = NoRecord
    /\ cur = Initial
    /\ pc = "new"
    /\ opi = 0
    /\ booted = NoSlot
    /\ hist = << >>
    /\ execd = << >>
    /\ mem0 = mem
    /\ midReset = FALSE
    /\ resets = 0
    /\ attempts = 0
    /\ trial = "none"
    /\ step = 0
    /\ snap = mem
    /\ buf = << >>

plannerVars == << device, mem, wear, nvm, cur, booted, hist, mem0, midReset,
                  resets, attempts, trial, snap, strategy, strategy0, buf >>

\* strategy.last_step(): Step(blocks * 3), Step(num_pages * 3).
PlannerLastStep ==
    /\ pc = "new"
    /\ \/ pc' = "ready"
       \/ LastStepUnbounded(strategy) >= U16Mod /\ pc' = "panic"
    /\ UNCHANGED << plannerVars, execd, step, opi >>

\* strategy.plan(Step(k)) for a step below last_step.
PlannerPlan ==
    /\ pc = "ready"
    /\ \E k \in PlanStepSamples :
          /\ k < LastStep(strategy)
          /\ step' = k
          /\ execd' = Plan(strategy, k)
    /\ pc' = "planned"
    /\ UNCHANGED << plannerVars, opi >>

PlannerNext ==
    \/ PlannerLastStep
    \/ PlannerPlan

PlannerSpec == PlannerInit /\ [][PlannerNext]_vars

\* ================================================================ claims
IsPrefix(a, b) ==
    /\ Len(a) <= Len(b)
    /\ \A i \in 1..Len(a) : a[i] = b[i]

\* The request of the update cycle in progress, and its two strategies.
CycleRequest == hist[1]

CycleForward ==
    StrategyNew(device, CycleRequest.target, CycleRequest.current)

CycleReverse == ReverseStrategy(CycleForward)

\* Primary and the request's other slot hold the same pages in m and n.
SameImages(m, n) ==
    /\ m[PRIMARY] = n[PRIMARY]
    /\ m[CycleForward.slot_secondary] = n[CycleForward.slot_secondary]

\* Contents after an uninterrupted run of the forward plan, and of the
\* forward plan followed by the reverse plan.
UninterruptedForward == PerformCopy(mem0, CycleForward)

UninterruptedReverse == PerformCopy(UninterruptedForward, CycleReverse)

\* C1: for Copy, SABS and Scootch, whatever resets cut the plans partway
\* and force steps to be executed again from the last persisted state, once
\* the run is complete primary and secondary hold what an uninterrupted
\* run of the same plan leaves there.
PowerLossEquivalence ==
    (hist # << >> /\ device.kind \in {"Copy", "SABS", "Scootch"}) =>
        /\ nvm.tag \in {"Trialing", "Confirmed"} =>
               SameImages(mem, UninterruptedForward)
        /\ nvm.tag = "Failed" => SameImages(mem, UninterruptedReverse)

PowerLossEquivalenceWitness ==
    /\ midReset
    /\ nvm.tag = "Trialing"
    /\ device.kind = "SABS"
    /\ device.scratch_pages = 2
    /\ mem[PRIMARY] = IMAGE_B(device.num_pages)

\* C2: progress past step k is stored only when the operations executed
\* since the last reset or store are exactly plan(k), and every operation
\* executed belongs, in order, to the plan of the step that is persisted.
PersistAfterExecute ==
    [][ /\ (nvm' # nvm /\ nvm.tag \in {"Swapping", "Returning"}) =>
            /\ execd = Plan(StrategyOf(nvm), nvm.step)
            /\ nvm' = NextState(nvm)
        /\ (execd' # execd /\ execd' # << >>) =>
            /\ nvm' = nvm
            /\ nvm.tag \in {"Swapping", "Returning"}
            /\ IsPrefix(execd', Plan(StrategyOf(nvm), nvm.step)) ]_vars

PersistAfterExecuteWitness ==
    /\ midReset
    /\ nvm.tag = "Swapping"
    /\ nvm.step = 2
    /\ execd # << >>

\* Number of Swapping (Returning) states a pass of strategy s persists: one
\* per step, and step 0 alone for a strategy that has no step.
StepsPersisted(s) == IF LastStep(s) = 0 THEN 1 ELSE LastStep(s)

ForwardTrace ==
    << CycleRequest >>
    \o [i \in 1..StepsPersisted(CycleForward)
            |-> Swapping(CycleRequest.target, CycleRequest.current, i - 1)]
    \o << Trialing(CycleRequest.target, CycleRequest.current) >>

\* C3: from a Request the distinct persisted states are Swapping step 0,
\* 1, ..., last_step - 1, then Trialing, whatever resets occur; nothing is
\* copied while the Request is persisted; the target is booted only once
\* Trialing is in the history.
ForwardUpdateTrace ==
    /\ [](hist # << >> =>
            /\ IsPrefix(hist, ForwardTrace) \/ IsPrefix(ForwardTrace, hist)
            /\ nvm.tag = "Request" => (mem = mem0 /\ execd = << >>))
    /\ [][ (hist # << >> /\ booted = NoSlot
            /\ booted' = CycleRequest.target) =>
                (\E i \in 1..Len(hist) : hist[i].tag = "Trialing") ]_vars

ForwardUpdateTraceWitness ==
    /\ hist # << >>
    /\ hist = ForwardTrace
    /\ Len(hist) > 4
    /\ midReset
    /\ booted = CycleRequest.target

ReturnTrace ==
    [i \in 1..StepsPersisted(CycleReverse)
            |-> Returning(CycleRequest.target, CycleRequest.current, i - 1)]
    \o << Failed(CycleRequest.current, CycleRequest.target) >>

\* What was persisted after Trialing.
AfterTrial == SubSeq(hist, Len(ForwardTrace) + 1, Len(hist))

\* C4: an unconfirmed trial is followed by Returning step 0, 1, ...,
\* last_step - 1 of the reverse strategy, then Failed{current: old,
\* failed: target}, and the slot booted once Failed is persisted is old.
FailedTrialTrace ==
    (hist # << >> /\ Len(hist) > Len(ForwardTrace)
        /\ hist[Len(ForwardTrace) + 1].tag # "Confirmed") =>
        /\ IsPrefix(AfterTrial, ReturnTrace)
        /\ (nvm.tag = "Failed" /\ booted # NoSlot) =>
               booted = CycleRequest.current

FailedTrialTraceWitness ==
    /\ hist # << >>
    /\ AfterTrial = ReturnTrace
    /\ Len(ReturnTrace) > 3
    /\ booted = CycleRequest.current
    /\ midReset

\* The slot a terminal state boots.
BootSlot(st) ==
    CASE st.tag = "Initial" -> PRIMARY
      [] st.tag = "Confirmed" -> st.target
      [] st.tag = "Failed" -> st.current

\* C5: while the persisted state is Initial, Confirmed or Failed, no step
\* of the bootloader and no reset changes the persisted state or any slot,
\* no operation is executed, and the slot booted is primary, target or
\* current respectively.
TerminalStatesOnlyBoot ==
    [][ (Persisted.tag \in TerminalTags /\ pc \in {"fetch", "run", "boot"}) =>
            /\ nvm' = nvm
            /\ mem' = mem
            /\ execd' = << >>
            /\ pc' = "app" => booted' = BootSlot(Persisted) ]_vars

TerminalStatesOnlyBootWitness ==
    /\ pc = "app"
    /\ nvm.tag = "Confirmed"
    /\ booted = nvm.target
    /\ cur = nvm

StepIdempotence ==
    (pc = "again" /\ opi = Len(Plan(PlanStrategy, step))) => mem = snap

StepIdempotenceWitness ==
    /\ pc = "again"
    /\ opi = Len(Plan(PlanStrategy, step))
    /\ opi = 2
    /\ device.kind = "SABS"
    /\ step = 2

\* C9: the full SABS plan leaves image B in primary and image A in
\* secondary, page for page, also when num_pages is no multiple of
\* scratch_pages.
SabsResult ==
    (pc = "done" /\ device.kind = "SABS") =>
        /\ mem[PRIMARY] = IMAGE_B(device.num_pages)
        /\ mem[SECONDARY] = IMAGE_A(device.num_pages)

SabsResultWitness ==
    /\ pc = "done"
    /\ device.kind = "SABS"
    /\ device.num_pages = 3
    /\ device.scratch_pages = 2
    /\ mem[SECONDARY] = IMAGE_A(3)

\* C10: the full Scootch plan (steps 0 .. 3N-1) leaves image B in primary
\* and image A in secondary, and touches no scratch page but page 0.
ScootchResult ==
    (pc = "done" /\ device.kind = "Scootch") =>
        /\ step = 3 * device.num_pages
        /\ mem[PRIMARY] = IMAGE_B(device.num_pages)
        /\ mem[SECONDARY] = IMAGE_A(device.num_pages)
        /\ \A i \in 1..Len(execd) :
              /\ execd[i].to.slot = SCRATCH => execd[i].to.page = 0
              /\ execd[i].from.slot = SCRATCH => execd[i].from.page = 0

ScootchResultWitness ==
    /\ pc = "done"
    /\ device.kind = "Scootch"
    /\ device.num_pages = 3
    /\ mem[PRIMARY] = IMAGE_B(3)
    /\ mem[SECONDARY] = IMAGE_A(3)

\* The operations perform_copy executes for a strategy, in order.
RECURSIVE PlannedOpsFrom(_, _)
PlannedOpsFrom(s, from) ==
    IF from >= LastStep(s) THEN << >>
    ELSE Plan(s, from) \o PlannedOpsFrom(s, from + 1)

PlannedOps(s) == PlannedOpsFrom(s, 0)

\* The executor ran every step exactly once.
Uninterrupted == pc = "done" /\ execd = PlannedOps(PlanStrategy)

\* Number of copies a location has been the destination of.
WearOf(w, addr) == IF addr \in DOMAIN w THEN w[addr] ELSE 0

\* C11: the full Copy plan (its single step 0) makes every primary page
\* equal to the same page of the source slot and writes each primary page
\* exactly once; the source and the backup slot keep their contents and
\* are never a destination.
CopyResultAndFrame ==
    device.kind = "Copy" =>
        /\ mem[PlanStrategy.slot_secondary] = mem0[PlanStrategy.slot_secondary]
        /\ mem[PlanStrategy.slot_backup] = mem0[PlanStrategy.slot_backup]
        /\ CheckSlot(wear, PlanStrategy.slot_secondary, 0)
        /\ CheckSlot(wear, PlanStrategy.slot_backup, 0)
        /\ \A addr \in DOMAIN wear : addr.slot = PlanStrategy.slot_primary
        /\ pc = "done" =>
              /\ step = 1
              /\ \A p \in Pages(device.num_pages) :
                    mem[PRIMARY][p] = mem0[PlanStrategy.slot_secondary][p]
        /\ Uninterrupted =>
              \A p \in Pages(device.num_pages) :
                  WearOf(wear, MemoryLocation(PRIMARY, p)) = 1

CopyResultAndFrameWitness ==
    /\ device.kind = "Copy"
    /\ device.num_pages = 3
    /\ Uninterrupted
    /\ mem[PRIMARY] = IMAGE_B(3)
    /\ mem[ALPHA] = IMAGE_A(3)
    /\ wear[MemoryLocation(PRIMARY, 2)] = 1

\* The slots a strategy's request names, and the primary slot.
NamedSlots(s) ==
    {s.slot_primary, s.slot_secondary} \cup
        (IF s.kind \in {"Copy", "Xip"} /\ s.slot_backup # NoSlot
         THEN {s.slot_backup} ELSE {})

RoundTrip == \A slot \in NamedSlots(strategy0) : mem[slot] = mem0[slot]

\* C12 as stated: after a strategy and its revert have both run in full,
\* primary and every slot the request names hold what they held at the
\* start, whatever that was.
RevertRoundTrip == pc = "reverted" => RoundTrip

\* C12: after a strategy and its revert have both run in full, primary and
\* every slot the request names hold what they held at the start, provided
\* that for Copy the backup slot held the same pages as primary.
RevertRoundTripFromBackup ==
    (/\ pc = "reverted"
     /\ strategy0.kind = "Copy" =>
            mem0[strategy0.slot_backup] = mem0[strategy0.slot_primary])
    => RoundTrip

RevertRoundTripFromBackupWitness ==
    /\ pc = "reverted"
    /\ strategy0.kind = "Copy"
    /\ strategy0.num_pages = 3
    /\ mem0[ALPHA] = mem0[PRIMARY]
    /\ mem0[BETA] # mem0[PRIMARY]
    /\ snap[PRIMARY] = mem0[BETA]
    /\ mem[PRIMARY] = mem0[PRIMARY]

\* C13: SABS is its own inverse: revert hands back the strategy unchanged,
\* the first full plan swaps primary and secondary, and the second full
\* plan puts both back page for page, for every num_pages and
\* scratch_pages.
SabsOwnInverse ==
    strategy0.kind = "SABS" =>
        /\ pc \in {"reverse", "reverted"} =>
              /\ strategy = strategy0
              /\ snap[PRIMARY] = mem0[SECONDARY]
              /\ snap[SECONDARY] = mem0[PRIMARY]
        /\ pc = "reverted" =>
              /\ mem[PRIMARY] = mem0[PRIMARY]
              /\ mem[SECONDARY] = mem0[SECONDARY]

SabsOwnInverseWitness ==
    /\ pc = "reverted"
    /\ strategy0.kind = "SABS"
    /\ strategy0.num_pages = 3
    /\ strategy0.scratch_pages = 2
    /\ mem0[PRIMARY] # mem0[SECONDARY]
    /\ mem[PRIMARY] = mem0[PRIMARY]
    /\ snap[PRIMARY] = mem0[SECONDARY]

\* C14: the revert of a Copy with backup slot b is the Copy from b with no
\* backup, same primary and page count; a Copy without backup has no
\* revert; after the forward and the reverted plan primary holds the pages
\* of b, which are the original pages when b held a copy of them.
CopyRevertResult ==
    strategy0.kind = "Copy" =>
        /\ strategy0.slot_backup # NoSlot =>
              /\ CopyRevert(strategy0) =
                    Copy(strategy0.slot_backup, NoSlot, strategy0.num_pages)
              /\ CopyRevert(strategy0).slot_primary = strategy0.slot_primary
        /\ strategy0.slot_backup = NoSlot =>
              /\ CopyRevert(strategy0) = NoStrategy
              /\ pc \notin {"reverse", "reverted"}
        /\ pc \in {"reverse", "reverted"} =>
              strategy = Copy(strategy0.slot_backup, NoSlot, strategy0.num_pages)
        /\ pc = "reverted" =>
              /\ mem[PRIMARY] = mem0[strategy0.slot_backup]
              /\ mem0[strategy0.slot_backup] = mem0[PRIMARY] =>
                    mem[PRIMARY] = mem0[PRIMARY]

CopyRevertResultWitness ==
    /\ pc = "reverted"
    /\ strategy0.kind = "Copy"
    /\ strategy0.num_pages = 3
    /\ strategy.slot_secondary = ALPHA
    /\ strategy.slot_backup = NoSlot
    /\ snap[PRIMARY] = mem0[BETA]
    /\ mem0[ALPHA] # mem0[BETA]
    /\ mem[PRIMARY] = mem0[ALPHA]

InProgress(st) == st.tag \in {"Swapping", "Returning"}

BootInvoked == booted = NoSlot /\ booted' # NoSlot

\* The step stores Trialing and goes on to boot within the same run.
TrialingJustPersisted ==
    /\ pc = "boot"
    /\ cur = nvm
    /\ hist # << >>
    /\ hist[Len(hist)] = nvm

\* C16: boot is invoked only while the persisted state is Initial,
\* Confirmed or Failed, or a Trialing stored just before in the same run,
\* never while it is Request, Swapping or Returning; once an image has
\* been booted the orchestrator copies nothing and stores nothing until
\* the next reset.
BootNeverMidStep ==
    [][/\ BootInvoked =>
            /\ Persisted.tag \in TerminalTags \cup {"Trialing"}
            /\ Persisted.tag = "Trialing" => TrialingJustPersisted
            /\ nvm' = nvm
       /\ (pc # "boot" /\ pc' = "boot") =>
            (nvm' # nvm /\ nvm'.tag = "Trialing" /\ cur' = nvm')
       /\ (booted # NoSlot /\ booted' # NoSlot) =>
            /\ mem' = mem
            /\ execd' = execd
            /\ cur' = cur
            /\ nvm' # nvm => nvm'.tag \in {"Confirmed", "Request"}]_vars

BootNeverMidStepWitness ==
    /\ booted = BETA
    /\ device.kind = "Copy"
    /\ nvm.tag = "Trialing"
    /\ cur = nvm
    /\ mem[PRIMARY] = mem0[BETA]

\* The value of the most recent completed store, Initial when no store
\* has completed.
LatestStored == IF hist = << >> THEN Initial ELSE hist[Len(hist)]

\* C17: fetch yields the value of the most recent completed store; when
\* no store has ever completed it yields Initial, and the orchestrator
\* then boots primary and does nothing else.
FetchLatest ==
    /\ [](hist = << >> <=> nvm = NoRecord)
    /\ []((pc = "run" /\ hist = << >>) =>
            (cur = Initial /\ ENABLED BootInitial))
    /\ [][/\ (pc = "fetch" /\ pc' = "run") => cur' = LatestStored
          /\ (pc = "run" /\ hist = << >> /\ pc' # "fetch") =>
                (booted' = PRIMARY /\ pc' = "app" /\ UNCHANGED nvm)]_vars

FetchLatestWitness ==
    /\ pc = "run"
    /\ midReset
    /\ opi = 0
    /\ cur = LatestStored
    /\ cur.tag = "Swapping"
    /\ cur.step = 2
    /\ execd = << >>
    /\ Len(hist) = 4

\* The record in the store is not the encoding of any State.
Undecodable == nvm # NoRecord /\ ~DeserializeFrom(buf).ok

\* C18: a stored record that cannot be decoded is treated as no record:
\* the fetch ends with State::Initial, not with an error, a panic or
\* another state.
CorruptRecordIsInitial ==
    (pc \in {"run", "panic"} /\ Undecodable) => (pc = "run" /\ cur = Initial)

\* C19: a State that is stored and fetched back unharmed is the State that
\* was stored, for every variant, slots up to 255 and steps up to 65535.
CodecRoundTrip ==
    /\ pc = "stored" =>
          /\ buf = ToSlice(nvm)
          /\ DeserializeFrom(buf) = Ok(nvm)
    /\ (pc = "run" /\ nvm # NoRecord /\ buf = SerializeInto(nvm).value) =>
          cur = nvm
    /\ (pc = "panic" /\ nvm # NoRecord) => buf # SerializeInto(nvm).value

CodecRoundTripWitness ==
    /\ pc = "run"
    /\ nvm = Returning(128, 255, 65535)
    /\ buf = << 6, 128, 255, 255, 255, 3 >>
    /\ cur = nvm

XipCopiesNothing ==
    /\ [](device.kind = "Xip" =>
            /\ LastStep(StrategyNew(device, SECONDARY, PRIMARY)) = 0
            /\ \A k \in 0..MaxPages :
                  /\ Plan(StrategyNew(device, SECONDARY, PRIMARY), k) = << >>
                  /\ Plan(ReverseStrategy(
                         StrategyNew(device, SECONDARY, PRIMARY)), k) = << >>
            /\ mem = mem0
            /\ execd = << >>)
    /\ [][device.kind = "Xip" => mem' = mem]_vars

XipCopiesNothingWitness ==
    /\ device.kind = "Xip"
    /\ nvm.tag = "Failed"
    /\ Len(hist) = 5
    /\ booted = PRIMARY
    /\ mem = mem0

\* C23 as stated: the revert of an XIP strategy with target t and backup b
\* is the XIP strategy with target b and backup t; without backup there is
\* no revert.
XipRevertSwaps ==
    strategy0.kind = "Xip" =>
        /\ pc \in {"reverse", "reverted"} =>
              strategy = Xip(strategy0.slot_backup, strategy0.slot_secondary)
        /\ strategy0.slot_backup = NoSlot => XipRevert(strategy0) = NoStrategy

\* C23: the revert of an XIP strategy with target t and backup b is the
\* XIP strategy with target b and no backup; without backup there is no
\* revert.
XipRevertToBackup ==
    strategy0.kind = "Xip" =>
        /\ strategy0.slot_backup # NoSlot =>
              XipRevert(strategy0) = Xip(strategy0.slot_backup, NoSlot)
        /\ pc \in {"reverse", "reverted"} =>
              /\ strategy0.slot_backup # NoSlot
              /\ strategy = Xip(strategy0.slot_backup, NoSlot)
              /\ XipRevert(strategy) = NoStrategy
        /\ strategy0.slot_backup = NoSlot =>
              /\ XipRevert(strategy0) = NoStrategy
              /\ pc \in {"forward", "irreversible"}

XipRevertToBackupWitness ==
    /\ pc = "reverted"
    /\ strategy0 = Xip(BETA, ALPHA)
    /\ strategy.slot_secondary = ALPHA
    /\ strategy.slot_backup = NoSlot

\* C24: whenever Confirmed{target} is persisted, Trialing with the same
\* target was persisted before it; Confirmed is written only by the booted
\* application while Trialing is persisted, never by the bootloader.
ConfirmedFollowsTrial ==
    /\ [](nvm.tag = "Confirmed" =>
            /\ Len(hist) >= 2
            /\ hist[Len(hist)] = nvm
            /\ \E i \in 1..(Len(hist) - 1) :
                  /\ hist[i].tag = "Trialing"
                  /\ hist[i].target = nvm.target)
    /\ [][(nvm' # nvm /\ nvm'.tag = "Confirmed") =>
            /\ pc = "app"
            /\ booted = nvm.target
            /\ nvm.tag = "Trialing"
            /\ nvm'.target = nvm.target]_vars

ConfirmedFollowsTrialWitness ==
    /\ nvm.tag = "Confirmed"
    /\ device.kind = "Scootch"
    /\ nvm.target = SECONDARY
    /\ hist[Len(hist) - 1] = Trialing(SECONDARY, PRIMARY)
    /\ booted = SECONDARY

\* C25: every change of the persisted state made while it is Swapping,
\* Trialing or Returning either keeps the tag and the slots and adds
\* exactly 1 to step, or changes the tag, a new tag with a step starting
\* at step 0; a reset changes nothing of it.
StepOrTag ==
    [][/\ (nvm' # nvm /\ nvm.tag \in {"Swapping", "Trialing", "Returning"}) =>
            IF nvm'.tag = nvm.tag
            THEN /\ InProgress(nvm)
                 /\ nvm' = [nvm EXCEPT !.step = nvm.step + 1]
            ELSE InProgress(nvm') => nvm'.step = 0
       /\ (pc' = "fetch" /\ pc # "fetch") => nvm' = nvm
       /\ (InProgress(nvm) /\ InProgress(nvm') /\ nvm'.tag = nvm.tag) =>
            nvm'.step \in {nvm.step, nvm.step + 1}]_vars

StepOrTagWitness ==
    /\ midReset
    /\ device.kind = "SABS"
    /\ nvm = Returning(SECONDARY, PRIMARY, 4)
    /\ hist[Len(hist) - 1] = Returning(SECONDARY, PRIMARY, 3)

\* The operations the SABS step encoding prescribes for a step.
SabsExpected(s, k) ==
    LET block == k \div 3
        phase == k % 3
        first == block * s.scratch_pages
        count == Min(s.num_pages - first, s.scratch_pages)
    IN  [i \in 1..count |->
            CASE phase = 0 ->
                   CopyOperation(MemoryLocation(s.slot_primary, first + i - 1),
                                 MemoryLocation(s.slot_scratch, i - 1))
              [] phase = 1 ->
                   CopyOperation(MemoryLocation(s.slot_secondary, first + i - 1),
                                 MemoryLocation(s.slot_primary, first + i - 1))
              [] phase = 2 ->
                   CopyOperation(MemoryLocation(s.slot_scratch, i - 1),
                                 MemoryLocation(s.slot_secondary, first + i - 1))]

\* C26: for every num_pages N and scratch_pages W the SABS last_step is
\* 3 * ceil(N / W), and plan(3 * block + phase) below it emits
\* min(N - block * W, W) operations: primary -> scratch for phase 0,
\* secondary -> primary for phase 1, scratch -> secondary for phase 2.
SabsStepEncoding ==
    (strategy.kind = "SABS" /\ pc # "new") =>
        /\ pc # "panic"
        /\ LastStep(strategy) =
              3 * ((strategy.num_pages + strategy.scratch_pages - 1)
                      \div strategy.scratch_pages)
        /\ pc = "planned" => execd = SabsExpected(strategy, step)

\* The operation the Scootch step encoding prescribes for a step.
ScootchExpected(s, k) ==
    IF k < s.num_pages
    THEN CopyOperation(MemoryLocation(s.slot_primary, k),
                       IF k = 0 THEN MemoryLocation(s.slot_scratch, 0)
                       ELSE MemoryLocation(s.slot_primary, k - 1))
    ELSE LET r == k - s.num_pages
             p == s.num_pages - (r \div 2) - 1
         IN  IF r % 2 = 0
             THEN CopyOperation(MemoryLocation(s.slot_secondary, p),
                                MemoryLocation(s.slot_primary, p))
             ELSE CopyOperation(IF p = 0 THEN MemoryLocation(s.slot_scratch, 0)
                                ELSE MemoryLocation(s.slot_primary, p - 1),
                                MemoryLocation(s.slot_secondary, p))

\* C27: for every num_pages N the Scootch last_step is 3N and every step
\* below it emits exactly one operation: primary[p] -> primary[p-1]
\* (scratch[0] for p = 0) for step p < N, then for r = step - N and
\* p = N - r/2 - 1 secondary[p] -> primary[p] when r is even and
\* primary[p-1] (scratch[0] for p = 0) -> secondary[p] when r is odd.
ScootchStepEncoding ==
    (strategy.kind = "Scootch" /\ pc # "new") =>
        /\ pc # "panic"
        /\ LastStep(strategy) = 3 * strategy.num_pages
        /\ pc = "planned" => execd = << ScootchExpected(strategy, step) >>

\* C28: whatever slots the request names, no operation of a planned step
\* has its destination location equal to its source location.
NoSelfCopy ==
    pc = "planned" =>
        \A i \in 1..Len(execd) : execd[i].to # execd[i].from

\* A location of one of the strategy's slots, within the slot's pages.
InBounds(s, addr) ==
    \/ /\ addr.slot \in {s.slot_primary, s.slot_secondary}
       /\ addr.page \in Pages(s.num_pages)
    \/ /\ s.kind \in {"SABS", "Scootch"}
       /\ addr.slot = s.slot_scratch
       /\ addr.page \in Pages(IF s.kind = "Scootch" THEN 1
                              ELSE s.scratch_pages)

\* C29: every source and every destination of a planned step lies in the
\* primary, the secondary (source) or the scratch slot, below num_pages in
\* primary and secondary and below scratch_pages in scratch (page 0 for
\* Scootch); the last SABS block stays below num_pages.
PlannedInBounds ==
    pc = "planned" =>
        \A i \in 1..Len(execd) :
            /\ InBounds(strategy, execd[i].from)
            /\ InBounds(strategy, execd[i].to)

PlannedInBoundsWitness ==
    /\ pc = "planned"
    /\ strategy = SwapSABS(SECONDARY, 3, 2)
    /\ step = 4
    /\ execd = << CopyOperation(MemoryLocation(SECONDARY, 2),
                                MemoryLocation(PRIMARY, 2)) >>

\* A step in which a copy of the plan in hand returns an error.
CopyFailed ==
    \/ attempts' = attempts + 1
    \/ pc = "run" /\ pc' = "halt"

\* C30: a failed copy leaves the stored record and the step in hand as they
\* are; a step is retried at most MaxRetries times; after the last failure
\* the run ends in a reset and the orchestrator resumes from the same
\* record; progress is stored only after a pass of the step's plan in which
\* every copy succeeded.
FailedCopyKeepsProgress ==
    /\ [](attempts <= MaxRetries)
    /\ [](pc = "halt" => attempts = MaxRetries /\ nvm = cur)
    /\ [][/\ CopyFailed => nvm' = nvm /\ cur' = cur
          /\ pc = "halt" => pc' = "fetch" /\ nvm' = nvm
          /\ pc = "fetch" => pc' = "run" /\ nvm' = nvm /\ cur' = Fetch(nvm)
          /\ (pc = "run" /\ cur.tag \in {"Swapping", "Returning"}
                /\ nvm' # nvm)
                => execd = CurPlan /\ nvm' = NextState(cur)]_vars

FailedCopyKeepsProgressWitness ==
    /\ pc = "halt"
    /\ attempts = MaxRetries
    /\ nvm = Swapping(SECONDARY, PRIMARY, 1)
    /\ cur = nvm
    /\ mem # mem0

\* The page contents of the two images the mock device starts with.
ImagePages == 1..(2 * device.num_pages)

\* Some location of some slot holds page contents v.
Held(m, v) ==
    \E slot \in Slots : \E p \in DOMAIN m[slot] : m[slot][p] = v

\* C31: with SABS and Scootch, in every state of a forward or reverse run,
\* in the middle of a step and after resets and repeated steps alike, every
\* page of image A and every page of image B is held by some location of
\* primary, secondary or scratch.
NoPageLost ==
    device.kind \in {"SABS", "Scootch"} =>
        \A v \in ImagePages : Held(mem, v)

NoPageLostWitness ==
    /\ device = [kind |-> "SABS", num_pages |-> 3, scratch_pages |-> 2]
    /\ midReset
    /\ nvm.tag = "Returning"
    /\ pc = "run"
    /\ opi = 1
    /\ Len(CurPlan) = 2
    /\ mem[PRIMARY] # IMAGE_A(3)
    /\ mem[PRIMARY] # IMAGE_B(3)

\* C32: with SABS, and with Scootch run again as its own reverse plan,
\* whatever resets occur during Swapping, Trialing and Returning, when the
\* stored record is Failed{current: old, failed: target} primary and
\* secondary hold, page for page, what they held when the Request was filed.
FailedTrialRestores ==
    (hist # << >> /\ device.kind \in {"SABS", "Scootch"}
        /\ nvm.tag = "Failed") =>
        /\ nvm = Failed(CycleRequest.current, CycleRequest.target)
        /\ mem[PRIMARY] = mem0[PRIMARY]
        /\ mem[SECONDARY] = mem0[SECONDARY]

FailedTrialRestoresWitness ==
    /\ device = [kind |-> "SABS", num_pages |-> 3, scratch_pages |-> 2]
    /\ midReset
    /\ nvm = Failed(PRIMARY, SECONDARY)
    /\ mem[PRIMARY] = IMAGE_A(3)
    /\ mem[SECONDARY] = IMAGE_B(3)
    /\ mem[SCRATCH] # mem0[SCRATCH]

\* The stored record becomes Returning.
BecomesReturning == nvm.tag # "Returning" /\ nvm'.tag = "Returning"

\* C33 as stated: whenever the stored record becomes Returning{failed:
\* target}, the target has been booted since Trialing{target} was stored,
\* also when a reset falls between the store of Trialing and the boot.
FailedOnlyAfterTargetRan ==
    [][BecomesReturning => trial = "booted"]_vars

\* C33: whenever the stored record becomes Returning{failed: target}, the
\* record before was Trialing{target, old}, a reset has occurred since it
\* was stored, and the target has been booted since then unless that reset
\* fell between the store of Trialing and the boot.
FailedOnlyAfterReset ==
    /\ [](trial = "stored" => pc = "boot" /\ nvm.tag = "Trialing")
    /\ [](trial = "cut" =>
            booted = NoSlot /\ nvm.tag \in {"Trialing", "Returning"})
    /\ [][BecomesReturning =>
            /\ nvm.tag = "Trialing"
            /\ nvm' = Returning(nvm.target, nvm.old, 0)
            /\ trial \in {"booted", "cut"}
            /\ pc = "run" /\ booted = NoSlot]_vars
    /\ [][(trial = "stored" /\ trial' # "stored") =>
            \/ trial' = "booted" /\ booted' = nvm.target
            \/ trial' = "cut" /\ pc' = "fetch"]_vars

FailedOnlyAfterResetWitness ==
    /\ nvm = Returning(SECONDARY, PRIMARY, 0)
    /\ trial = "cut"
    /\ pc = "run"
    /\ device.kind = "Scootch"

\* C34: for page counts and scratch sizes in 1..65535, last_step of SABS
\* and of Scootch is computed without leaving 16 bits and is the true
\* value, 3 * ceil(num_pages / scratch_pages) and 3 * num_pages, and so is
\* the SABS block start (step / 3) * scratch_pages of every planned step.
StepArithmeticFits ==
    /\ pc # "panic"
    /\ (pc # "new" /\ strategy.kind \in {"SABS", "Scootch"}) =>
            LastStep(strategy) = LastStepUnbounded(strategy)
    /\ (pc = "planned" /\ strategy.kind = "SABS") =>
            (step \div 3) * strategy.scratch_pages < U16Mod

\* C35: Scootch is its own inverse: for every num_pages and every contents
\* of the slots, the first full plan (steps 0..3N-1) swaps primary and
\* secondary and the second full plan puts both back page for page.
ScootchOwnInverse ==
    strategy0.kind = "Scootch" =>
        /\ strategy = strategy0
        /\ pc \in {"reverse", "reverted"} =>
              /\ snap[PRIMARY] = mem0[SECONDARY]
              /\ snap[SECONDARY] = mem0[PRIMARY]
        /\ pc = "reverted" =>
              /\ step = 3 * strategy0.num_pages
              /\ mem[PRIMARY] = mem0[PRIMARY]
              /\ mem[SECONDARY] = mem0[SECONDARY]

ScootchOwnInverseWitness ==
    /\ pc = "reverted"
    /\ strategy0 = SwapScootch(SECONDARY, 3)
    /\ mem0[PRIMARY] = [p \in Pages(3) |-> IF p = 1 THEN 2 ELSE 1]
    /\ mem0[SECONDARY] = [p \in Pages(3) |-> IF p = 0 THEN 1 ELSE 2]
    /\ snap[PRIMARY] = mem0[SECONDARY]
    /\ mem[PRIMARY] = mem0[PRIMARY]
    /\ mem[SECONDARY] = mem0[SECONDARY]

\* C36: for every State, whatever its tag, slots up to 255 and step up to
\* 65535, the encoding is at most MAX_SERIALIZED_SIZE = 64 bytes long (six
\* at most), so store never fails on a full buffer.
SerializedStateFits ==
    /\ pc = "stored" =>
          /\ SerializeInto(nvm) = Ok(buf)
          /\ Len(buf) <= MAX_SERIALIZED_SIZE
          /\ Len(buf) <= 6
    /\ pc = "panic" => nvm # NoRecord /\ hist # << >>

SerializedStateFitsWitness ==
    /\ pc = "stored"
    /\ nvm = Swapping(255, 128, 65535)
    /\ buf = << 5, 255, 128, 255, 255, 3 >>

====
